---- MODULE Spec2Model ----
(***************************************************************************)
(* Model of the timetable parsing helpers of src/parsers.py: the text      *)
(* normalizer, the day canonicalizer, the grid expander (_expand_table),   *)
(* the table structure parser (_parse_table_structure), the cell content   *)
(* splitter (_split_cell_by_week), the week-matrix builder and the loader. *)
(*                                                                         *)
(* Representation.                                                         *)
(*  - A Python str is a sequence of Unicode code points, so that lower(),  *)
(*    strip(), the regular expressions and the alias lookup are computed   *)
(*    and not assumed ("Mon" is <<77, 111, 110>>).                         *)
(*  - An optional value (None, or an absent HTML attribute) is a sequence  *)
(*    of length 0 or 1.                                                    *)
(*  - A DOM cell (td/th) is a record [id, rowspan, colspan, kids]; id is   *)
(*    the cell's identity (grid positions alias a cell by holding the same *)
(*    record), rowspan/colspan are the optional attribute strings, kids    *)
(*    are the direct children in document order.  A child is a record      *)
(*    [kind, class, week, strs]: kind "str" is a NavigableString, kind     *)
(*    "tag" an element with its class list, its optional data-week         *)
(*    attribute and the strings of its subtree in document order (the only *)
(*    things the code reads of a child).                                   *)
(*  - A table is the sequence of its tr rows, a row the sequence of its    *)
(*    td/th cells.                                                         *)
(***************************************************************************)
EXTENDS Integers, Sequences, FiniteSets, TLC

VARIABLES
    pc,           \* "start", "loop", "done" or "raised" (an exception left the call)
    table,        \* _expand_table / _parse_table_structure: the input table
    tr,           \* _expand_table: index of the next tr of the for loop
    grid,         \* _expand_table: grid
    span_map,     \* _expand_table: span_map, column index (0-based) -> [cell, remaining]
    parsed,       \* _parse_table_structure: the returned triple
    label,        \* _normalize_day_label: the argument
    day,          \* _normalize_day_label: the returned optional string
    cell,         \* _split_cell_by_week: the argument
    week_map,     \* _split_cell_by_week: the returned dict
    doc,          \* load_classes / load_teachers: the document, top-level elements
    class_names,  \* load_classes: class_names (teacher_names), sorted
    pos,          \* load_classes: index of the next name of the for loop
    days,         \* load_classes: days
    periods,      \* load_classes: periods
    odd_week,     \* load_classes: odd_week
    even_week     \* load_classes: even_week

vars == <<pc, table, tr, grid, span_map, parsed, label, day, cell, week_map,
          doc, class_names, pos, days, periods, odd_week, even_week>>

\* Value of the variables a specification does not use.
Unused == <<>>

(***************************************************************************)
(* Generic sequence helpers                                                *)
(***************************************************************************)
Min(a, b) == IF a <= b THEN a ELSE b

RECURSIVE Flatten(_)
Flatten(ss) == IF ss = <<>> THEN <<>> ELSE Head(ss) \o Flatten(Tail(ss))

RECURSIVE SelectSeqIdx(_, _, _)
\* the indexes i (ascending, from i) of s at which Keep[i] holds
SelectSeqIdx(n, i, Keep) ==
    IF i > n THEN <<>>
    ELSE (IF Keep[i] THEN <<i>> ELSE <<>>) \o SelectSeqIdx(n, i + 1, Keep)

Range(s) == {s[i] : i \in DOMAIN s}

(***************************************************************************)
(* Text Normalizer                                                         *)
(***************************************************************************)
\* Python's Unicode white space: the code points c with chr(c).isspace(),
\* which are the ones regex \s matches on a str and str.strip() removes.
IsSpace(c) ==
    c \in {9, 10, 11, 12, 13, 28, 29, 30, 31, 32, 133, 160, 5760, 8192, 8193,
       8194, 8195, 8196, 8197, 8198, 8199, 8200, 8201, 8202, 8232, 8233,
       8239, 8287, 12288}

\* The zeros of the blocks of Unicode decimal digits (category Nd), which
\* regex \d matches on a str and int() accepts; the value of a digit is its
\* offset in its block.
DigitBases ==
    {48, 1632, 1776, 1984, 2406, 2534, 2662, 2790, 2918, 3046, 3174, 3302,
     3430, 3558, 3664, 3792, 3872, 4160, 4240, 6112, 6160, 6470, 6608, 6784,
     6800, 6992, 7088, 7232, 7248, 42528, 43216, 43264, 43472, 43504, 43600,
     44016, 65296, 66720, 68912, 69734, 69872, 69942, 70096, 70384, 70736,
     70864, 71248, 71360, 71472, 71904, 72016, 72784, 73040, 73120, 92768,
     92864, 93008, 120782, 120792, 120802, 120812, 120822, 123200, 123632,
     125264, 130032}
IsDigit(c) == \E b \in DigitBases : c \in b .. (b + 9)
DigitVal(c) == c - (CHOOSE b \in DigitBases : c \in b .. (b + 9))

\* The simple lower-case mappings of str.lower(): <<lo, hi, step, delta>>
\* stands for c -> c + delta for c = lo, lo + step, ... up to hi.
LowerRanges ==
    {<<65, 90, 1, 32>>, <<192, 214, 1, 32>>, <<216, 222, 1, 32>>, <<256,
     302, 2, 1>>, <<306, 310, 2, 1>>, <<313, 327, 2, 1>>, <<330, 374, 2,
     1>>, <<376, 376, 1, -121>>, <<377, 381, 2, 1>>, <<385, 385, 1, 210>>,
     <<386, 388, 2, 1>>, <<390, 390, 1, 206>>, <<391, 391, 1, 1>>, <<393,
     394, 1, 205>>, <<395, 395, 1, 1>>, <<398, 398, 1, 79>>, <<399, 399, 1,
     202>>, <<400, 400, 1, 203>>, <<401, 401, 1, 1>>, <<403, 403, 1, 205>>,
     <<404, 404, 1, 207>>, <<406, 406, 1, 211>>, <<407, 407, 1, 209>>,
     <<408, 408, 1, 1>>, <<412, 412, 1, 211>>, <<413, 413, 1, 213>>, <<415,
     415, 1, 214>>, <<416, 420, 2, 1>>, <<422, 422, 1, 218>>, <<423, 423, 1,
     1>>, <<425, 425, 1, 218>>, <<428, 428, 1, 1>>, <<430, 430, 1, 218>>,
     <<431, 431, 1, 1>>, <<433, 434, 1, 217>>, <<435, 437, 2, 1>>, <<439,
     439, 1, 219>>, <<440, 440, 1, 1>>, <<444, 444, 1, 1>>, <<452, 452, 1,
     2>>, <<453, 453, 1, 1>>, <<455, 455, 1, 2>>, <<456, 456, 1, 1>>, <<458,
     458, 1, 2>>, <<459, 475, 2, 1>>, <<478, 494, 2, 1>>, <<497, 497, 1,
     2>>, <<498, 500, 2, 1>>, <<502, 502, 1, -97>>, <<503, 503, 1, -56>>,
     <<504, 542, 2, 1>>, <<544, 544, 1, -130>>, <<546, 562, 2, 1>>, <<570,
     570, 1, 10795>>, <<571, 571, 1, 1>>, <<573, 573, 1, -163>>, <<574, 574,
     1, 10792>>, <<577, 577, 1, 1>>, <<579, 579, 1, -195>>, <<580, 580, 1,
     69>>, <<581, 581, 1, 71>>, <<582, 590, 2, 1>>, <<880, 882, 2, 1>>,
     <<886, 886, 1, 1>>, <<895, 895, 1, 116>>, <<902, 902, 1, 38>>, <<904,
     906, 1, 37>>, <<908, 908, 1, 64>>, <<910, 911, 1, 63>>, <<913, 929, 1,
     32>>, <<931, 939, 1, 32>>, <<975, 975, 1, 8>>, <<984, 1006, 2, 1>>,
     <<1012, 1012, 1, -60>>, <<1015, 1015, 1, 1>>, <<1017, 1017, 1, -7>>,
     <<1018, 1018, 1, 1>>, <<1021, 1023, 1, -130>>, <<1024, 1039, 1, 80>>,
     <<1040, 1071, 1, 32>>, <<1120, 1152, 2, 1>>, <<1162, 1214, 2, 1>>,
     <<1216, 1216, 1, 15>>, <<1217, 1229, 2, 1>>, <<1232, 1326, 2, 1>>,
     <<1329, 1366, 1, 48>>, <<4256, 4293, 1, 7264>>, <<4295, 4295, 1,
     7264>>, <<4301, 4301, 1, 7264>>, <<5024, 5103, 1, 38864>>, <<5104,
     5109, 1, 8>>, <<7312, 7354, 1, -3008>>, <<7357, 7359, 1, -3008>>,
     <<7680, 7828, 2, 1>>, <<7838, 7838, 1, -7615>>, <<7840, 7934, 2, 1>>,
     <<7944, 7951, 1, -8>>, <<7960, 7965, 1, -8>>, <<7976, 7983, 1, -8>>,
     <<7992, 7999, 1, -8>>, <<8008, 8013, 1, -8>>, <<8025, 8031, 2, -8>>,
     <<8040, 8047, 1, -8>>, <<8072, 8079, 1, -8>>, <<8088, 8095, 1, -8>>,
     <<8104, 8111, 1, -8>>, <<8120, 8121, 1, -8>>, <<8122, 8123, 1, -74>>,
     <<8124, 8124, 1, -9>>, <<8136, 8139, 1, -86>>, <<8140, 8140, 1, -9>>,
     <<8152, 8153, 1, -8>>, <<8154, 8155, 1, -100>>, <<8168, 8169, 1, -8>>,
     <<8170, 8171, 1, -112>>, <<8172, 8172, 1, -7>>, <<8184, 8185, 1,
     -128>>, <<8186, 8187, 1, -126>>, <<8188, 8188, 1, -9>>, <<8486, 8486,
     1, -7517>>, <<8490, 8490, 1, -8383>>, <<8491, 8491, 1, -8262>>, <<8498,
     8498, 1, 28>>, <<8544, 8559, 1, 16>>, <<8579, 8579, 1, 1>>, <<9398,
     9423, 1, 26>>, <<11264, 11311, 1, 48>>, <<11360, 11360, 1, 1>>,
     <<11362, 11362, 1, -10743>>, <<11363, 11363, 1, -3814>>, <<11364,
     11364, 1, -10727>>, <<11367, 11371, 2, 1>>, <<11373, 11373, 1,
     -10780>>, <<11374, 11374, 1, -10749>>, <<11375, 11375, 1, -10783>>,
     <<11376, 11376, 1, -10782>>, <<11378, 11378, 1, 1>>, <<11381, 11381, 1,
     1>>, <<11390, 11391, 1, -10815>>, <<11392, 11490, 2, 1>>, <<11499,
     11501, 2, 1>>, <<11506, 11506, 1, 1>>, <<42560, 42604, 2, 1>>, <<42624,
     42650, 2, 1>>, <<42786, 42798, 2, 1>>, <<42802, 42862, 2, 1>>, <<42873,
     42875, 2, 1>>, <<42877, 42877, 1, -35332>>, <<42878, 42886, 2, 1>>,
     <<42891, 42891, 1, 1>>, <<42893, 42893, 1, -42280>>, <<42896, 42898, 2,
     1>>, <<42902, 42920, 2, 1>>, <<42922, 42922, 1, -42308>>, <<42923,
     42923, 1, -42319>>, <<42924, 42924, 1, -42315>>, <<42925, 42925, 1,
     -42305>>, <<42926, 42926, 1, -42308>>, <<42928, 42928, 1, -42258>>,
     <<42929, 42929, 1, -42282>>, <<42930, 42930, 1, -42261>>, <<42931,
     42931, 1, 928>>, <<42932, 42946, 2, 1>>, <<42948, 42948, 1, -48>>,
     <<42949, 42949, 1, -42307>>, <<42950, 42950, 1, -35384>>, <<42951,
     42953, 2, 1>>, <<42960, 42960, 1, 1>>, <<42966, 42968, 2, 1>>, <<42997,
     42997, 1, 1>>, <<65313, 65338, 1, 32>>, <<66560, 66599, 1, 40>>,
     <<66736, 66771, 1, 40>>, <<66928, 66964, 2, 39>>, <<66929, 66937, 2,
     39>>, <<66941, 66953, 2, 39>>, <<66957, 66961, 2, 39>>, <<66965, 66965,
     1, 39>>, <<68736, 68786, 1, 64>>, <<71840, 71871, 1, 32>>, <<93760,
     93791, 1, 32>>, <<125184, 125217, 1, 34>>}

LowerHit(c, r) == r[1] <= c /\ c <= r[2] /\ (c - r[1]) % r[3] = 0

\* str.lower() on one code point, out of context: a sequence, because
\* U+0130 lowers to the two code points U+0069 U+0307
LowerChar(c) ==
    IF c = 304 THEN <<105, 775>>
    ELSE IF \E r \in LowerRanges : LowerHit(c, r)
         THEN <<c + (CHOOSE r \in LowerRanges : LowerHit(c, r))[4]>>
         ELSE <<c>>

\* The code points that are cased and not case-ignorable, <<lo, hi>> ranges.
CasedRanges ==
    {<<65, 90>>, <<97, 122>>, <<170, 170>>, <<181, 181>>, <<186, 186>>,
     <<192, 214>>, <<216, 246>>, <<248, 442>>, <<444, 447>>, <<452, 659>>,
     <<661, 687>>, <<880, 883>>, <<886, 887>>, <<891, 893>>, <<895, 895>>,
     <<902, 902>>, <<904, 906>>, <<908, 908>>, <<910, 929>>, <<931, 1013>>,
     <<1015, 1153>>, <<1162, 1327>>, <<1329, 1366>>, <<1376, 1416>>, <<4256,
     4293>>, <<4295, 4295>>, <<4301, 4301>>, <<4304, 4346>>, <<4349, 4351>>,
     <<5024, 5109>>, <<5112, 5117>>, <<7296, 7304>>, <<7312, 7354>>, <<7357,
     7359>>, <<7424, 7467>>, <<7531, 7543>>, <<7545, 7578>>, <<7680, 7957>>,
     <<7960, 7965>>, <<7968, 8005>>, <<8008, 8013>>, <<8016, 8023>>, <<8025,
     8025>>, <<8027, 8027>>, <<8029, 8029>>, <<8031, 8061>>, <<8064, 8116>>,
     <<8118, 8124>>, <<8126, 8126>>, <<8130, 8132>>, <<8134, 8140>>, <<8144,
     8147>>, <<8150, 8155>>, <<8160, 8172>>, <<8178, 8180>>, <<8182, 8188>>,
     <<8450, 8450>>, <<8455, 8455>>, <<8458, 8467>>, <<8469, 8469>>, <<8473,
     8477>>, <<8484, 8484>>, <<8486, 8486>>, <<8488, 8488>>, <<8490, 8493>>,
     <<8495, 8500>>, <<8505, 8505>>, <<8508, 8511>>, <<8517, 8521>>, <<8526,
     8526>>, <<8544, 8575>>, <<8579, 8580>>, <<9398, 9449>>, <<11264,
     11387>>, <<11390, 11492>>, <<11499, 11502>>, <<11506, 11507>>, <<11520,
     11557>>, <<11559, 11559>>, <<11565, 11565>>, <<42560, 42605>>, <<42624,
     42651>>, <<42786, 42863>>, <<42865, 42887>>, <<42891, 42894>>, <<42896,
     42954>>, <<42960, 42961>>, <<42963, 42963>>, <<42965, 42969>>, <<42997,
     42998>>, <<43002, 43002>>, <<43824, 43866>>, <<43872, 43880>>, <<43888,
     43967>>, <<64256, 64262>>, <<64275, 64279>>, <<65313, 65338>>, <<65345,
     65370>>, <<66560, 66639>>, <<66736, 66771>>, <<66776, 66811>>, <<66928,
     66938>>, <<66940, 66954>>, <<66956, 66962>>, <<66964, 66965>>, <<66967,
     66977>>, <<66979, 66993>>, <<66995, 67001>>, <<67003, 67004>>, <<68736,
     68786>>, <<68800, 68850>>, <<71840, 71903>>, <<93760, 93823>>,
     <<119808, 119892>>, <<119894, 119964>>, <<119966, 119967>>, <<119970,
     119970>>, <<119973, 119974>>, <<119977, 119980>>, <<119982, 119993>>,
     <<119995, 119995>>, <<119997, 120003>>, <<120005, 120069>>, <<120071,
     120074>>, <<120077, 120084>>, <<120086, 120092>>, <<120094, 120121>>,
     <<120123, 120126>>, <<120128, 120132>>, <<120134, 120134>>, <<120138,
     120144>>, <<120146, 120485>>, <<120488, 120512>>, <<120514, 120538>>,
     <<120540, 120570>>, <<120572, 120596>>, <<120598, 120628>>, <<120630,
     120654>>, <<120656, 120686>>, <<120688, 120712>>, <<120714, 120744>>,
     <<120746, 120770>>, <<120772, 120779>>, <<122624, 122633>>, <<122635,
     122654>>, <<125184, 125251>>, <<127280, 127305>>, <<127312, 127337>>,
     <<127344, 127369>>}

\* The case-ignorable code points, <<lo, hi>> ranges.
CaseIgnorableRanges ==
    {<<39, 39>>, <<46, 46>>, <<58, 58>>, <<94, 94>>, <<96, 96>>, <<168,
     168>>, <<173, 173>>, <<175, 175>>, <<180, 180>>, <<183, 184>>, <<688,
     879>>, <<884, 885>>, <<890, 890>>, <<900, 901>>, <<903, 903>>, <<1155,
     1161>>, <<1369, 1369>>, <<1375, 1375>>, <<1425, 1469>>, <<1471, 1471>>,
     <<1473, 1474>>, <<1476, 1477>>, <<1479, 1479>>, <<1524, 1524>>, <<1536,
     1541>>, <<1552, 1562>>, <<1564, 1564>>, <<1600, 1600>>, <<1611, 1631>>,
     <<1648, 1648>>, <<1750, 1757>>, <<1759, 1768>>, <<1770, 1773>>, <<1807,
     1807>>, <<1809, 1809>>, <<1840, 1866>>, <<1958, 1968>>, <<2027, 2037>>,
     <<2042, 2042>>, <<2045, 2045>>, <<2070, 2093>>, <<2137, 2139>>, <<2184,
     2184>>, <<2192, 2193>>, <<2200, 2207>>, <<2249, 2306>>, <<2362, 2362>>,
     <<2364, 2364>>, <<2369, 2376>>, <<2381, 2381>>, <<2385, 2391>>, <<2402,
     2403>>, <<2417, 2417>>, <<2433, 2433>>, <<2492, 2492>>, <<2497, 2500>>,
     <<2509, 2509>>, <<2530, 2531>>, <<2558, 2558>>, <<2561, 2562>>, <<2620,
     2620>>, <<2625, 2626>>, <<2631, 2632>>, <<2635, 2637>>, <<2641, 2641>>,
     <<2672, 2673>>, <<2677, 2677>>, <<2689, 2690>>, <<2748, 2748>>, <<2753,
     2757>>, <<2759, 2760>>, <<2765, 2765>>, <<2786, 2787>>, <<2810, 2815>>,
     <<2817, 2817>>, <<2876, 2876>>, <<2879, 2879>>, <<2881, 2884>>, <<2893,
     2893>>, <<2901, 2902>>, <<2914, 2915>>, <<2946, 2946>>, <<3008, 3008>>,
     <<3021, 3021>>, <<3072, 3072>>, <<3076, 3076>>, <<3132, 3132>>, <<3134,
     3136>>, <<3142, 3144>>, <<3146, 3149>>, <<3157, 3158>>, <<3170, 3171>>,
     <<3201, 3201>>, <<3260, 3260>>, <<3263, 3263>>, <<3270, 3270>>, <<3276,
     3277>>, <<3298, 3299>>, <<3328, 3329>>, <<3387, 3388>>, <<3393, 3396>>,
     <<3405, 3405>>, <<3426, 3427>>, <<3457, 3457>>, <<3530, 3530>>, <<3538,
     3540>>, <<3542, 3542>>, <<3633, 3633>>, <<3636, 3642>>, <<3654, 3662>>,
     <<3761, 3761>>, <<3764, 3772>>, <<3782, 3782>>, <<3784, 3789>>, <<3864,
     3865>>, <<3893, 3893>>, <<3895, 3895>>, <<3897, 3897>>, <<3953, 3966>>,
     <<3968, 3972>>, <<3974, 3975>>, <<3981, 3991>>, <<3993, 4028>>, <<4038,
     4038>>, <<4141, 4144>>, <<4146, 4151>>, <<4153, 4154>>, <<4157, 4158>>,
     <<4184, 4185>>, <<4190, 4192>>, <<4209, 4212>>, <<4226, 4226>>, <<4229,
     4230>>, <<4237, 4237>>, <<4253, 4253>>, <<4348, 4348>>, <<4957, 4959>>,
     <<5906, 5908>>, <<5938, 5939>>, <<5970, 5971>>, <<6002, 6003>>, <<6068,
     6069>>, <<6071, 6077>>, <<6086, 6086>>, <<6089, 6099>>, <<6103, 6103>>,
     <<6109, 6109>>, <<6155, 6159>>, <<6211, 6211>>, <<6277, 6278>>, <<6313,
     6313>>, <<6432, 6434>>, <<6439, 6440>>, <<6450, 6450>>, <<6457, 6459>>,
     <<6679, 6680>>, <<6683, 6683>>, <<6742, 6742>>, <<6744, 6750>>, <<6752,
     6752>>, <<6754, 6754>>, <<6757, 6764>>, <<6771, 6780>>, <<6783, 6783>>,
     <<6823, 6823>>, <<6832, 6862>>, <<6912, 6915>>, <<6964, 6964>>, <<6966,
     6970>>, <<6972, 6972>>, <<6978, 6978>>, <<7019, 7027>>, <<7040, 7041>>,
     <<7074, 7077>>, <<7080, 7081>>, <<7083, 7085>>, <<7142, 7142>>, <<7144,
     7145>>, <<7149, 7149>>, <<7151, 7153>>, <<7212, 7219>>, <<7222, 7223>>,
     <<7288, 7293>>, <<7376, 7378>>, <<7380, 7392>>, <<7394, 7400>>, <<7405,
     7405>>, <<7412, 7412>>, <<7416, 7417>>, <<7468, 7530>>, <<7544, 7544>>,
     <<7579, 7679>>, <<8125, 8125>>, <<8127, 8129>>, <<8141, 8143>>, <<8157,
     8159>>, <<8173, 8175>>, <<8189, 8190>>, <<8203, 8207>>, <<8216, 8217>>,
     <<8228, 8228>>, <<8231, 8231>>, <<8234, 8238>>, <<8288, 8292>>, <<8294,
     8303>>, <<8305, 8305>>, <<8319, 8319>>, <<8336, 8348>>, <<8400, 8432>>,
     <<11388, 11389>>, <<11503, 11505>>, <<11631, 11631>>, <<11647, 11647>>,
     <<11744, 11775>>, <<11823, 11823>>, <<12293, 12293>>, <<12330, 12333>>,
     <<12337, 12341>>, <<12347, 12347>>, <<12441, 12446>>, <<12540, 12542>>,
     <<40981, 40981>>, <<42232, 42237>>, <<42508, 42508>>, <<42607, 42610>>,
     <<42612, 42621>>, <<42623, 42623>>, <<42652, 42655>>, <<42736, 42737>>,
     <<42752, 42785>>, <<42864, 42864>>, <<42888, 42890>>, <<42994, 42996>>,
     <<43000, 43001>>, <<43010, 43010>>, <<43014, 43014>>, <<43019, 43019>>,
     <<43045, 43046>>, <<43052, 43052>>, <<43204, 43205>>, <<43232, 43249>>,
     <<43263, 43263>>, <<43302, 43309>>, <<43335, 43345>>, <<43392, 43394>>,
     <<43443, 43443>>, <<43446, 43449>>, <<43452, 43453>>, <<43471, 43471>>,
     <<43493, 43494>>, <<43561, 43566>>, <<43569, 43570>>, <<43573, 43574>>,
     <<43587, 43587>>, <<43596, 43596>>, <<43632, 43632>>, <<43644, 43644>>,
     <<43696, 43696>>, <<43698, 43700>>, <<43703, 43704>>, <<43710, 43711>>,
     <<43713, 43713>>, <<43741, 43741>>, <<43756, 43757>>, <<43763, 43764>>,
     <<43766, 43766>>, <<43867, 43871>>, <<43881, 43883>>, <<44005, 44005>>,
     <<44008, 44008>>, <<44013, 44013>>, <<64286, 64286>>, <<64434, 64450>>,
     <<65024, 65039>>, <<65043, 65043>>, <<65056, 65071>>, <<65106, 65106>>,
     <<65109, 65109>>, <<65279, 65279>>, <<65287, 65287>>, <<65294, 65294>>,
     <<65306, 65306>>, <<65342, 65342>>, <<65344, 65344>>, <<65392, 65392>>,
     <<65438, 65439>>, <<65507, 65507>>, <<65529, 65531>>, <<66045, 66045>>,
     <<66272, 66272>>, <<66422, 66426>>, <<67456, 67461>>, <<67463, 67504>>,
     <<67506, 67514>>, <<68097, 68099>>, <<68101, 68102>>, <<68108, 68111>>,
     <<68152, 68154>>, <<68159, 68159>>, <<68325, 68326>>, <<68900, 68903>>,
     <<69291, 69292>>, <<69446, 69456>>, <<69506, 69509>>, <<69633, 69633>>,
     <<69688, 69702>>, <<69744, 69744>>, <<69747, 69748>>, <<69759, 69761>>,
     <<69811, 69814>>, <<69817, 69818>>, <<69821, 69821>>, <<69826, 69826>>,
     <<69837, 69837>>, <<69888, 69890>>, <<69927, 69931>>, <<69933, 69940>>,
     <<70003, 70003>>, <<70016, 70017>>, <<70070, 70078>>, <<70089, 70092>>,
     <<70095, 70095>>, <<70191, 70193>>, <<70196, 70196>>, <<70198, 70199>>,
     <<70206, 70206>>, <<70367, 70367>>, <<70371, 70378>>, <<70400, 70401>>,
     <<70459, 70460>>, <<70464, 70464>>, <<70502, 70508>>, <<70512, 70516>>,
     <<70712, 70719>>, <<70722, 70724>>, <<70726, 70726>>, <<70750, 70750>>,
     <<70835, 70840>>, <<70842, 70842>>, <<70847, 70848>>, <<70850, 70851>>,
     <<71090, 71093>>, <<71100, 71101>>, <<71103, 71104>>, <<71132, 71133>>,
     <<71219, 71226>>, <<71229, 71229>>, <<71231, 71232>>, <<71339, 71339>>,
     <<71341, 71341>>, <<71344, 71349>>, <<71351, 71351>>, <<71453, 71455>>,
     <<71458, 71461>>, <<71463, 71467>>, <<71727, 71735>>, <<71737, 71738>>,
     <<71995, 71996>>, <<71998, 71998>>, <<72003, 72003>>, <<72148, 72151>>,
     <<72154, 72155>>, <<72160, 72160>>, <<72193, 72202>>, <<72243, 72248>>,
     <<72251, 72254>>, <<72263, 72263>>, <<72273, 72278>>, <<72281, 72283>>,
     <<72330, 72342>>, <<72344, 72345>>, <<72752, 72758>>, <<72760, 72765>>,
     <<72767, 72767>>, <<72850, 72871>>, <<72874, 72880>>, <<72882, 72883>>,
     <<72885, 72886>>, <<73009, 73014>>, <<73018, 73018>>, <<73020, 73021>>,
     <<73023, 73029>>, <<73031, 73031>>, <<73104, 73105>>, <<73109, 73109>>,
     <<73111, 73111>>, <<73459, 73460>>, <<78896, 78904>>, <<92912, 92916>>,
     <<92976, 92982>>, <<92992, 92995>>, <<94031, 94031>>, <<94095, 94111>>,
     <<94176, 94177>>, <<94179, 94180>>, <<110576, 110579>>, <<110581,
     110587>>, <<110589, 110590>>, <<113821, 113822>>, <<113824, 113827>>,
     <<118528, 118573>>, <<118576, 118598>>, <<119143, 119145>>, <<119155,
     119170>>, <<119173, 119179>>, <<119210, 119213>>, <<119362, 119364>>,
     <<121344, 121398>>, <<121403, 121452>>, <<121461, 121461>>, <<121476,
     121476>>, <<121499, 121503>>, <<121505, 121519>>, <<122880, 122886>>,
     <<122888, 122904>>, <<122907, 122913>>, <<122915, 122916>>, <<122918,
     122922>>, <<123184, 123197>>, <<123566, 123566>>, <<123628, 123631>>,
     <<125136, 125142>>, <<125252, 125259>>, <<127995, 127999>>, <<917505,
     917505>>, <<917536, 917631>>, <<917760, 917999>>}

InRanges(c, ranges) == \E r \in ranges : r[1] <= c /\ c <= r[2]

\* the capital sigma at s[i] is final: a cased letter stands before it and
\* none after it, case-ignorable code points skipped on both sides
FinalSigma(s, i) ==
    /\ \E j \in 1 .. (i - 1) :
           /\ InRanges(s[j], CasedRanges)
           /\ \A k \in (j + 1) .. (i - 1) : InRanges(s[k], CaseIgnorableRanges)
    /\ ~\E j \in (i + 1) .. Len(s) :
           /\ InRanges(s[j], CasedRanges)
           /\ \A k \in (i + 1) .. (j - 1) : InRanges(s[k], CaseIgnorableRanges)

\* str.lower(): U+03A3 lowers to U+03C2 where it is final, else to U+03C3
Lower(s) ==
    Flatten([i \in DOMAIN s |->
                IF s[i] = 931 THEN (IF FinalSigma(s, i) THEN <<962>> ELSE <<963>>)
                ELSE LowerChar(s[i])])

RECURSIVE LStrip(_)
LStrip(s) == IF s # <<>> /\ IsSpace(Head(s)) THEN LStrip(Tail(s)) ELSE s

RECURSIVE RStrip(_)
RStrip(s) ==
    IF s # <<>> /\ IsSpace(s[Len(s)]) THEN RStrip(SubSeq(s, 1, Len(s) - 1)) ELSE s

\* str.strip()
Strip(s) == RStrip(LStrip(s))

RECURSIVE CollapseSpace(_, _)
\* re.sub(r"\s+", " ", s): every run of white space becomes one space
CollapseSpace(s, i) ==
    IF i > Len(s) THEN <<>>
    ELSE IF IsSpace(s[i])
         THEN (IF i > 1 /\ IsSpace(s[i - 1]) THEN <<>> ELSE <<32>>)
              \o CollapseSpace(s, i + 1)
         ELSE <<s[i]>> \o CollapseSpace(s, i + 1)

\* _normalize_text
NormalizeText(s) == Strip(CollapseSpace(s, 1))

\* "sub in s"
Contains(s, sub) ==
    \E i \in 0 .. (Len(s) - Len(sub)) : SubSeq(s, i + 1, i + Len(sub)) = sub

\* s.endswith(sub)
EndsWith(s, sub) ==
    Len(sub) <= Len(s) /\ SubSeq(s, Len(s) - Len(sub) + 1, Len(s)) = sub

\* re.search(r"\d", s) is not None
HasDigit(s) == \E i \in DOMAIN s : IsDigit(s[i])

\* _is_period_label
IsPeriodLabel(text) == HasDigit(text)

RECURSIVE DigitRunEnd(_, _)
DigitRunEnd(s, i) ==
    IF i + 1 <= Len(s) /\ IsDigit(s[i + 1]) THEN DigitRunEnd(s, i + 1) ELSE i

\* re.search(r"\d+", s).group(): the leftmost maximal run of digits (s has one)
FirstDigitRun(s) ==
    LET i == CHOOSE k \in DOMAIN s :
                 IsDigit(s[k]) /\ \A j \in 1 .. (k - 1) : ~IsDigit(s[j])
    IN  SubSeq(s, i, DigitRunEnd(s, i))

RECURSIVE NatToStr(_)
\* str(n) for n >= 0
NatToStr(n) ==
    IF n < 10 THEN <<48 + n>> ELSE NatToStr(n \div 10) \o <<48 + (n % 10)>>

RECURSIVE DigitsValue(_, _)
DigitsValue(s, acc) ==
    IF s = <<>> THEN acc
    ELSE IF Head(s) = 95 THEN DigitsValue(Tail(s), acc)
    ELSE DigitsValue(Tail(s), 10 * acc + DigitVal(Head(s)))

\* The white space int() strips: that of str.strip() without U+001C..U+001F.
IsIntSpace(c) == IsSpace(c) /\ c \notin 28 .. 31

RECURSIVE IntLStrip(_)
IntLStrip(s) == IF s # <<>> /\ IsIntSpace(Head(s)) THEN IntLStrip(Tail(s)) ELSE s

RECURSIVE IntRStrip(_)
IntRStrip(s) ==
    IF s # <<>> /\ IsIntSpace(s[Len(s)]) THEN IntRStrip(SubSeq(s, 1, Len(s) - 1)) ELSE s

\* The most digits int() converts (sys.get_int_max_str_digits(), the default).
MaxStrDigits == 4300

\* the digits of an int() literal after its sign: single underscores may
\* separate digits, and more than MaxStrDigits digits are refused
IntWellFormed(body) ==
    /\ body # <<>>
    /\ \A i \in DOMAIN body : IsDigit(body[i]) \/ body[i] = 95
    /\ IsDigit(body[1]) /\ IsDigit(body[Len(body)])
    /\ \A i \in 1 .. (Len(body) - 1) : ~(body[i] = 95 /\ body[i + 1] = 95)
    /\ Cardinality({i \in DOMAIN body : IsDigit(body[i])}) <= MaxStrDigits

IntOf(negative, body) ==
    IF ~IntWellFormed(body) THEN [ok |-> FALSE, val |-> 0]
    ELSE [ok |-> TRUE,
          val |-> IF negative THEN 0 - DigitsValue(body, 0) ELSE DigitsValue(body, 0)]

\* int() on the stripped text: one sign is allowed
IntStripped(t) ==
    IF t # <<>> /\ Head(t) \in {43, 45} THEN IntOf(Head(t) = 45, Tail(t))
    ELSE IntOf(FALSE, t)

\* int(s) for a str s: [ok |-> FALSE] stands for ValueError
ParseInt(s) == IntStripped(IntRStrip(IntLStrip(s)))

\* a < b for two str (code point order, as sorted() compares)
StrLess(a, b) ==
    \E k \in 1 .. (Min(Len(a), Len(b)) + 1) :
        /\ \A j \in 1 .. (k - 1) : a[j] = b[j]
        /\ \/ (k > Len(a) /\ k <= Len(b))
           \/ (k <= Len(a) /\ k <= Len(b) /\ a[k] < b[k])

(***************************************************************************)
(* Day Canonicalizer                                                       *)
(***************************************************************************)
\* The seven canonical days, Monday first (Cyrillic names, as code points).
DAY_ORDER ==
    << <<1044, 1072, 1074, 1072, 1072>>,
       <<1052, 1103, 1075, 1084, 1072, 1088>>,
       <<1051, 1093, 1072, 1075, 1074, 1072>>,
       <<1055, 1199, 1088, 1101, 1074>>,
       <<1041, 1072, 1072, 1089, 1072, 1085>>,
       <<1041, 1103, 1084, 1073, 1072>>,
       <<1053, 1103, 1084>> >>

\* The alias table in source order, <<key, canonical day>>.  Entry 2 is the
\* Cyrillic letters U+043C U+043E U+043D; the Latin "mon" is no key.
DAY_ALIASES ==
    << <<<<1076, 1072, 1074, 1072, 1072>>, <<1044, 1072, 1074, 1072, 1072>>>>,
       <<<<1084, 1086, 1085>>, <<1044, 1072, 1074, 1072, 1072>>>>,
       <<<<109, 111, 110, 100, 97, 121>>, <<1044, 1072, 1074, 1072, 1072>>>>,
       <<<<1084, 1103, 1075, 1084, 1072, 1088>>, <<1052, 1103, 1075, 1084, 1072, 1088>>>>,
       <<<<116, 117, 101>>, <<1052, 1103, 1075, 1084, 1072, 1088>>>>,
       <<<<109, 111, 110, 100, 97, 121>>, <<1044, 1072, 1074, 1072, 1072>>>>,
       <<<<116, 117, 101, 115, 100, 97, 121>>, <<1052, 1103, 1075, 1084, 1072, 1088>>>>,
       <<<<1083, 1093, 1072, 1075, 1074, 1072>>, <<1051, 1093, 1072, 1075, 1074, 1072>>>>,
       <<<<119, 101, 100>>, <<1051, 1093, 1072, 1075, 1074, 1072>>>>,
       <<<<119, 101, 100, 110, 101, 115, 100, 97, 121>>, <<1051, 1093, 1072, 1075, 1074, 1072>>>>,
       <<<<1087, 1199, 1088, 1101, 1074>>, <<1055, 1199, 1088, 1101, 1074>>>>,
       <<<<116, 104, 117>>, <<1055, 1199, 1088, 1101, 1074>>>>,
       <<<<116, 104, 117, 114>>, <<1055, 1199, 1088, 1101, 1074>>>>,
       <<<<116, 104, 117, 114, 115, 100, 97, 121>>, <<1055, 1199, 1088, 1101, 1074>>>>,
       <<<<1073, 1072, 1072, 1089, 1072, 1085>>, <<1041, 1072, 1072, 1089, 1072, 1085>>>>,
       <<<<102, 114, 105>>, <<1041, 1072, 1072, 1089, 1072, 1085>>>>,
       <<<<102, 114, 105, 100, 97, 121>>, <<1041, 1072, 1072, 1089, 1072, 1085>>>>,
       <<<<1073, 1103, 1084, 1073, 1072>>, <<1041, 1103, 1084, 1073, 1072>>>>,
       <<<<115, 97, 116>>, <<1041, 1103, 1084, 1073, 1072>>>>,
       <<<<115, 97, 116, 117, 114, 100, 97, 121>>, <<1041, 1103, 1084, 1073, 1072>>>>,
       <<<<1085, 1103, 1084>>, <<1053, 1103, 1084>>>>,
       <<<<115, 117, 110>>, <<1053, 1103, 1084>>>>,
       <<<<115, 117, 110, 100, 97, 121>>, <<1053, 1103, 1084>>>> >>

\* DAY_ALIASES.get(key, default)
AliasGet(key, default) ==
    IF \E i \in DOMAIN DAY_ALIASES : DAY_ALIASES[i][1] = key
    THEN DAY_ALIASES[CHOOSE i \in DOMAIN DAY_ALIASES : DAY_ALIASES[i][1] = key][2]
    ELSE default

\* _normalize_day_label: None is <<>>, a str s is <<s>>
\* lines 86-88 on cleaned
NormalizeCleaned(cleaned, lbl) ==
    IF cleaned = <<>> THEN <<>> ELSE <<AliasGet(cleaned, Strip(lbl))>>

NormalizeDayLabel(lbl) == NormalizeCleaned(Lower(NormalizeText(lbl)), lbl)

\* DAY_ORDER.index(d), 0-based (d is in DAY_ORDER)
DayIndex(d) == (CHOOSE i \in DOMAIN DAY_ORDER : DAY_ORDER[i] = d) - 1

(***************************************************************************)
(* DOM access                                                              *)
(***************************************************************************)
NonEmpty(s) == s # <<>>

\* the strings of a cell's subtree, in document order
AllStrings(kids) == Flatten([i \in DOMAIN kids |-> kids[i].strs])

RECURSIVE JoinSpace(_)
JoinSpace(strs) ==
    IF strs = <<>> THEN <<>>
    ELSE IF Len(strs) = 1 THEN strs[1]
    ELSE strs[1] \o <<32>> \o JoinSpace(Tail(strs))

\* c.get_text(" ")
GetText(c) == JoinSpace(AllStrings(c.kids))

\* list(x.stripped_strings) for the strings strs of x's subtree
StrippedStrings(strs) == SelectSeq([i \in DOMAIN strs |-> Strip(strs[i])], NonEmpty)

\* int(cell.get(name, 1)): an absent attribute gives the default 1
IntAttr(attr) == IF attr = <<>> THEN [ok |-> TRUE, val |-> 1] ELSE ParseInt(attr[1])

(***************************************************************************)
(* Grid Expander: _expand_table                                            *)
(* The state inside one tr is [row, col, sm, err]: row, col_idx, span_map  *)
(* and whether int() raised ValueError.                                    *)
(***************************************************************************)
\* span_map[k] = v
Put(f, k, v) == [x \in (DOMAIN f) \cup {k} |-> IF x = k THEN v ELSE f[x]]

\* del span_map[k]
Del(f, k) == [x \in (DOMAIN f) \ {k} |-> f[x]]

RECURSIVE DrainSpans(_)
\* the loop "while True: span_entry = span_map.get(col_idx) ..."
DrainSpans(st) ==
    IF st.col \in DOMAIN st.sm
    THEN LET e == st.sm[st.col]
             remaining == e.remaining - 1
         IN  DrainSpans([st EXCEPT
                 !.row = Append(st.row, e.cell),
                 !.col = st.col + 1,
                 !.sm = IF remaining = 0 THEN Del(st.sm, st.col)
                        ELSE Put(st.sm, st.col,
                                 [cell |-> e.cell, remaining |-> remaining])])
    ELSE st

RECURSIVE PlaceCell(_, _, _, _)
\* "for _ in range(colspan): row.append(cell) ..." with n iterations left
PlaceCell(st, c, rowspan, n) ==
    IF n <= 0 THEN st
    ELSE PlaceCell([st EXCEPT
             !.row = Append(st.row, c),
             !.col = st.col + 1,
             !.sm = IF rowspan > 1
                    THEN Put(st.sm, st.col, [cell |-> c, remaining |-> rowspan - 1])
                    ELSE st.sm],
         c, rowspan, n - 1)

RECURSIVE ExpandCells(_, _, _)
\* "for cell in tr.find_all(["td", "th"]): ..." from the i-th cell on
ExpandCells(cells, i, st) ==
    IF i > Len(cells) THEN st
    ELSE LET d == DrainSpans(st)
             rowspan == IntAttr(cells[i].rowspan)
             colspan == IntAttr(cells[i].colspan)
         IN  IF ~rowspan.ok \/ ~colspan.ok THEN [d EXCEPT !.err = TRUE]
             ELSE ExpandCells(cells, i + 1,
                              PlaceCell(d, cells[i], rowspan.val, colspan.val))

\* the body of "for tr in table.find_all("tr")" for one tr
ExpandTr(cells, sm) ==
    LET s0 == DrainSpans([row |-> <<>>, col |-> 0, sm |-> sm, err |-> FALSE])
        s1 == ExpandCells(cells, 1, s0)
    IN  IF s1.err THEN s1 ELSE DrainSpans(s1)

RECURSIVE ExpandFrom(_, _, _, _)
ExpandFrom(tbl, i, g, sm) ==
    IF i > Len(tbl) THEN [grid |-> g, err |-> FALSE]
    ELSE LET r == ExpandTr(tbl[i], sm)
         IN  IF r.err THEN [grid |-> g, err |-> TRUE]
             ELSE ExpandFrom(tbl, i + 1, Append(g, r.row), r.sm)

\* _expand_table(table): the grid, or err when int() raised ValueError
ExpandTable(tbl) == ExpandFrom(tbl, 1, <<>>, <<>>)

(***************************************************************************)
(* Table Structure Parser: _parse_table_structure                          *)
(***************************************************************************)
RECURSIVE BodyLoop(_, _, _, _)
\* "for row in body_rows: ..." from the i-th body row on
BodyLoop(body_rows, i, ps, matrix_cells) ==
    IF i > Len(body_rows) THEN [periods |-> ps, matrix_cells |-> matrix_cells]
    ELSE IF body_rows[i] = <<>> THEN BodyLoop(body_rows, i + 1, ps, matrix_cells)
    ELSE LET text == NormalizeText(GetText(body_rows[i][1]))
             reduced == IF text # <<>> /\ HasDigit(text)
                        THEN FirstDigitRun(text) ELSE text
             period_label == IF reduced = <<>> THEN NatToStr(Len(ps) + 1)
                             ELSE reduced
         IN  BodyLoop(body_rows, i + 1, Append(ps, period_label),
                      Append(matrix_cells, Tail(body_rows[i])))

\* the mutant of ShouldTranspose that tests any() in place of all()
ShouldTransposeAny(raw_days) ==
    raw_days # <<>> /\ \E i \in DOMAIN raw_days : IsPeriodLabel(raw_days[i])

\* "raw_days and all(_is_period_label(day) for day in raw_days)"
ShouldTranspose(raw_days) ==
    raw_days # <<>> /\ \A i \in DOMAIN raw_days : IsPeriodLabel(raw_days[i])

RECURSIVE MinLen(_)
MinLen(rows) ==
    IF Len(rows) = 1 THEN Len(rows[1]) ELSE Min(Len(rows[1]), MinLen(Tail(rows)))

\* [list(row) for row in zip(*matrix_cells)]: as long as the shortest row
ZipRows(matrix_cells) ==
    IF matrix_cells = <<>> THEN <<>>
    ELSE [j \in 1 .. MinLen(matrix_cells) |->
             [i \in 1 .. Len(matrix_cells) |-> matrix_cells[i][j]]]

\* the pairs zip(day_indices, normalized_days) of the labels that normalize
\* to a non-empty string; idx is 0-based
DayPairs(raw_days) ==
    LET norm == [i \in DOMAIN raw_days |-> NormalizeDayLabel(raw_days[i])]
        keep == [i \in DOMAIN raw_days |-> norm[i] # <<>> /\ norm[i][1] # <<>>]
        kept == SelectSeqIdx(Len(raw_days), 1, keep)
    IN  [k \in DOMAIN kept |-> [idx |-> kept[k] - 1, day |-> norm[kept[k]][1]]]

\* the sort key of line 189
SortKey(pair) ==
    IF pair.day \in Range(DAY_ORDER) THEN DayIndex(pair.day)
    ELSE Len(DAY_ORDER) + pair.idx

RECURSIVE InsertByKey(_, _)
InsertByKey(sorted, p) ==
    IF sorted = <<>> THEN <<p>>
    ELSE IF SortKey(Head(sorted)) <= SortKey(p)
         THEN <<Head(sorted)>> \o InsertByKey(Tail(sorted), p)
         ELSE <<p>> \o sorted

RECURSIVE SortedByKey(_)
\* sorted(pairs, key=...): stable
SortedByKey(pairs) ==
    IF pairs = <<>> THEN <<>>
    ELSE InsertByKey(SortedByKey(SubSeq(pairs, 1, Len(pairs) - 1)), pairs[Len(pairs)])

\* ordered, with the fallback to the raw labels when no label is usable
Ordered(raw_days) ==
    LET ordered == SortedByKey(DayPairs(raw_days))
    IN  IF ordered = <<>>
        THEN [i \in DOMAIN raw_days |-> [idx |-> i - 1, day |-> raw_days[i]]]
        ELSE ordered

\* [row[idx] for idx, _ in ordered if idx < len(row)]
OrderedRow(row, ordered) ==
    LET keep == [k \in DOMAIN ordered |-> ordered[k].idx < Len(row)]
        kept == SelectSeqIdx(Len(ordered), 1, keep)
    IN  [k \in DOMAIN kept |-> row[ordered[kept[k]].idx + 1]]

ParseResult(ds, ps, m, e) == [days |-> ds, periods |-> ps, matrix |-> m, err |-> e]

\* lines 193-198: ordered_days, and every row of matrix_cells reordered
Reordered(ordered, ps, matrix_cells) ==
    ParseResult([k \in DOMAIN ordered |-> ordered[k].day],
                ps,
                [r \in DOMAIN matrix_cells |-> OrderedRow(matrix_cells[r], ordered)],
                FALSE)

\* lines 173-179: the three values after the orientation check
Oriented(raw_days, body) ==
    IF ShouldTranspose(raw_days)
    THEN [raw_days |-> [i \in DOMAIN body.periods |-> NormalizeText(body.periods[i])],
          periods |-> raw_days,
          matrix_cells |-> ZipRows(body.matrix_cells)]
    ELSE [raw_days |-> raw_days, periods |-> body.periods,
          matrix_cells |-> body.matrix_cells]

\* lines 180-198 on the oriented values
ReorderDays(o) == Reordered(Ordered(o.raw_days), o.periods, o.matrix_cells)

\* [_normalize_text(c.get_text(" ")) for c in header_cells[1:]]
RawDays(header_cells) ==
    [i \in 1 .. (Len(header_cells) - 1) |-> NormalizeText(GetText(header_cells[i + 1]))]

\* lines 154-198 on the expanded grid
ParseGrid(ex) ==
    IF ex.err THEN ParseResult(<<>>, <<>>, <<>>, TRUE)
    ELSE IF ex.grid = <<>> THEN ParseResult(<<>>, <<>>, <<>>, FALSE)
    ELSE ReorderDays(Oriented(RawDays(ex.grid[1]),
                              BodyLoop(Tail(ex.grid), 1, <<>>, <<>>)))

\* _parse_table_structure(table): (ordered_days, periods, ordered_matrix);
\* err when _expand_table raised
ParseTableStructure(tbl) == ParseGrid(ExpandTable(tbl))

(***************************************************************************)
(* Cell Content Splitter: _split_cell_by_week                              *)
(***************************************************************************)
S_odd == <<111, 100, 100>>
S_even == <<101, 118, 101, 110>>
S_week1 == <<119, 101, 101, 107, 49>>
S_week2 == <<119, 101, 101, 107, 50>>
S_aweek == <<97, 119, 101, 101, 107>>
S_bweek == <<98, 119, 101, 101, 107>>

\* lines 204-207 on one lowered class: "odd", "even" or "none" (no return)
ClassWeek(lower) ==
    IF Contains(lower, S_odd) \/ Contains(lower, S_week1)
       \/ Contains(lower, S_aweek) THEN "odd"
    ELSE IF Contains(lower, S_even) \/ Contains(lower, S_week2)
            \/ Contains(lower, S_bweek) THEN "even"
    ELSE "none"

RECURSIVE DetectWeekFromClasses(_)
RECURSIVE ClassLoop(_, _)
\* the for loop of lines 202-207 after one class gave w
ClassLoop(w, rest) == IF w # "none" THEN w ELSE DetectWeekFromClasses(rest)

\* _detect_week_from_classes: "odd", "even" or "none" (None)
DetectWeekFromClasses(classes) ==
    IF classes = <<>> THEN "none"
    ELSE ClassLoop(ClassWeek(Lower(Head(classes))), Tail(classes))

\* lines 228-231 on the lowered data-week attribute
AttrWeek(week_attr) ==
    IF Contains(week_attr, S_odd) \/ EndsWith(week_attr, <<49>>) THEN "odd"
    ELSE IF Contains(week_attr, S_even) \/ EndsWith(week_attr, <<50>>) THEN "even"
    ELSE "none"

\* lines 226-231 after the classes gave week
ChildWeekFrom(week, child) ==
    IF week = "none" /\ child.week # <<>> THEN AttrWeek(Lower(child.week[1])) ELSE week

\* the week of one direct child (lines 225-231)
ChildWeek(child) == ChildWeekFrom(DetectWeekFromClasses(child.class), child)

\* _parse_entry_lines: the CellInfo
ParseEntryLines(lines) ==
    [subject |-> IF Len(lines) > 0 THEN lines[1] ELSE <<>>,
     second_line |-> IF Len(lines) > 1 THEN lines[2] ELSE <<>>,
     third_line |-> IF Len(lines) > 2 THEN lines[3] ELSE <<>>,
     extra_lines |-> IF Len(lines) > 3 THEN SubSeq(lines, 4, Len(lines)) ELSE <<>>]

\* [_normalize_text(s) for entry in entries for s in entry.stripped_strings]
EntryLines(entries) ==
    Flatten([e \in DOMAIN entries |->
        LET ss == StrippedStrings(entries[e].strs)
        IN  [j \in DOMAIN ss |-> NormalizeText(ss[j])]])

IsTag(node) == node.kind = "tag"
IsOddElem(el) == el.week = "odd"
IsEvenElem(el) == el.week = "even"
IsUnknownElem(el) == el.week = "none"

\* the mutant of Positional that gives both weeks the first of the two children
PositionalFirstTwice(odd_entries, even_entries, unknown_entries) ==
    IF odd_entries = <<>> /\ even_entries = <<>> /\ Len(unknown_entries) = 2
    THEN [odd |-> <<unknown_entries[1]>>, even |-> <<unknown_entries[1]>>,
          unknown |-> <<>>]
    ELSE [odd |-> odd_entries, even |-> even_entries, unknown |-> unknown_entries]

\* lines 245-248: two unmarked children and no marked one
Positional(odd_entries, even_entries, unknown_entries) ==
    IF odd_entries = <<>> /\ even_entries = <<>> /\ Len(unknown_entries) = 2
    THEN [odd |-> <<unknown_entries[1]>>, even |-> <<unknown_entries[2]>>,
          unknown |-> <<>>]
    ELSE [odd |-> odd_entries, even |-> even_entries, unknown |-> unknown_entries]

\* lines 249-256: fill an empty week from the unmarked children, then from
\* the other week
FillWeeks(p) ==
    LET odd1 == IF p.odd = <<>> /\ p.unknown # <<>>
                THEN <<p.unknown[1]>> ELSE p.odd
        even1 == IF p.even = <<>> /\ p.unknown # <<>>
                 THEN <<p.unknown[Len(p.unknown)]>> ELSE p.even
        even2 == IF odd1 # <<>> /\ even1 = <<>> THEN odd1 ELSE even1
        odd2 == IF even2 # <<>> /\ odd1 = <<>> THEN even2 ELSE odd1
    IN  [odd |-> odd2, even |-> even2]

\* _split_cell_by_week(cell): week_map, a missing key is <<>>.  An element
\* is [week, strs]: its detected week and the strings of its subtree.
SplitCellByWeek(c) ==
    LET direct_children == SelectSeq(c.kids, IsTag)
        entry_elements ==
            IF direct_children # <<>>
            THEN [i \in DOMAIN direct_children |->
                     [week |-> ChildWeek(direct_children[i]),
                      strs |-> direct_children[i].strs]]
            ELSE <<[week |-> "none", strs |-> AllStrings(c.kids)]>>
        p == Positional(SelectSeq(entry_elements, IsOddElem),
                        SelectSeq(entry_elements, IsEvenElem),
                        SelectSeq(entry_elements, IsUnknownElem))
        w == FillWeeks(p)
    IN  [odd |-> IF w.odd # <<>> THEN <<ParseEntryLines(EntryLines(w.odd))>> ELSE <<>>,
         even |-> IF w.even # <<>> THEN <<ParseEntryLines(EntryLines(w.even))>> ELSE <<>>]

\* _parse_cell_content
ParseCellContent(c) ==
    LET ss == StrippedStrings(AllStrings(c.kids))
    IN  ParseEntryLines([j \in DOMAIN ss |-> NormalizeText(ss[j])])

(***************************************************************************)
(* Week-Matrix Builder: _build_week_matrices                               *)
(***************************************************************************)
EmptyEntry == ParseEntryLines(<<>>)

\* week_entries.get("odd", _parse_entry_lines([]))
OddOf(week_entries) ==
    IF week_entries.odd # <<>> THEN week_entries.odd[1] ELSE EmptyEntry

\* week_entries.get("even", week_entries.get("odd", _parse_entry_lines([])))
EvenOf(week_entries) ==
    IF week_entries.even # <<>> THEN week_entries.even[1] ELSE OddOf(week_entries)

BuildResult(ds, ps, o, e, x) ==
    [days |-> ds, periods |-> ps, odd |-> o, even |-> e, err |-> x]

\* [[_parse_cell_content(cell) for cell in row] for row in cells]
ContentMatrix(cells) ==
    [r \in DOMAIN cells |-> [k \in DOMAIN cells[r] |-> ParseCellContent(cells[r][k])]]

\* lines 304-315: two or more tables, the first two parsed
BuildTwo(first, second, global_days) ==
    LET days0 == IF global_days = <<>> THEN first.days ELSE global_days
        differ == days0 # second.days \/ first.periods # second.periods
    IN  IF first.err \/ second.err THEN BuildResult(<<>>, <<>>, <<>>, <<>>, TRUE)
        ELSE BuildResult(
            IF differ /\ days0 = <<>> THEN second.days ELSE days0,
            IF differ /\ first.periods = <<>> THEN second.periods ELSE first.periods,
            ContentMatrix(first.matrix),
            ContentMatrix(second.matrix),
            FALSE)

\* lines 320-328: the odd and the even row entries of every cell
SplitMatrix(cell_grid) ==
    [r \in DOMAIN cell_grid |->
        [k \in DOMAIN cell_grid[r] |-> SplitCellByWeek(cell_grid[r][k])]]

\* lines 317-328: one table
BuildOne(only) ==
    IF only.err THEN BuildResult(<<>>, <<>>, <<>>, <<>>, TRUE)
    ELSE LET split == SplitMatrix(only.matrix)
         IN  BuildResult(
                only.days, only.periods,
                [r \in DOMAIN split |-> [k \in DOMAIN split[r] |-> OddOf(split[r][k])]],
                [r \in DOMAIN split |-> [k \in DOMAIN split[r] |-> EvenOf(split[r][k])]],
                FALSE)

\* _build_week_matrices(tables, global_days); global_days None is <<>>
BuildWeekMatrices(tables, global_days) ==
    IF Len(tables) >= 2
    THEN BuildTwo(ParseTableStructure(tables[1]), ParseTableStructure(tables[2]),
                  global_days)
    ELSE IF Len(tables) = 1 THEN BuildOne(ParseTableStructure(tables[1]))
    ELSE BuildResult(global_days, <<>>, <<>>, <<>>, FALSE)

(***************************************************************************)
(* Section Collector and loader: _collect_sections, load_classes           *)
(* (load_teachers runs the same loop).  The document is the sequence of    *)
(* its top-level elements, [kind, text, rows]: a heading h1..h4 with its   *)
(* text, or a table with its rows.                                         *)
(***************************************************************************)
RECURSIVE TablesFrom(_, _)
\* _extract_tables_after_heading: the tables from element i up to the next heading
TablesFrom(d, i) ==
    IF i > Len(d) \/ d[i].kind = "h" THEN <<>>
    ELSE (IF d[i].kind = "table" THEN <<d[i].rows>> ELSE <<>>) \o TablesFrom(d, i + 1)

HeadingTitle(d, i) == NormalizeText(d[i].text)

\* the headings _collect_sections records: a title and at least one table
Recorded(d) ==
    {i \in DOMAIN d : d[i].kind = "h" /\ HeadingTitle(d, i) # <<>>
                        /\ TablesFrom(d, i + 1) # <<>>}

\* _collect_sections(soup): title -> tables; a later heading of the same
\* title replaces the earlier one
CollectSections(d) ==
    [t \in {HeadingTitle(d, i) : i \in Recorded(d)} |->
        TablesFrom(d, 1 + CHOOSE i \in Recorded(d) :
            /\ HeadingTitle(d, i) = t
            /\ \A j \in Recorded(d) : HeadingTitle(d, j) = t => j <= i)]

RECURSIVE SortedStrs(_)
\* sorted(S) for a set of str
SortedStrs(S) ==
    IF S = {} THEN <<>>
    ELSE LET m == CHOOSE x \in S : \A y \in S \ {x} : StrLess(x, y)
         IN  <<m>> \o SortedStrs(S \ {m})

(***************************************************************************)
(* Building blocks of the inputs                                           *)
(***************************************************************************)
StrNode(s) == [kind |-> "str", class |-> <<>>, week |-> <<>>, strs |-> <<s>>]
TagNode(classes, week_attr, strs) ==
    [kind |-> "tag", class |-> classes, week |-> week_attr, strs |-> strs]
Cell(id, rowspan, colspan, kids) ==
    [id |-> id, rowspan |-> rowspan, colspan |-> colspan, kids |-> kids]
\* <td>s</td>
TextCell(id, s) == Cell(id, <<>>, <<>>, IF s = <<>> THEN <<>> ELSE <<StrNode(s)>>)

(***************************************************************************)
(* SpecDay: _normalize_day_label on day names in several letter cases      *)
(***************************************************************************)
UpperChar(c) ==
    IF c \in 97 .. 122 THEN c - 32
    ELSE IF c \in 1072 .. 1103 THEN c - 32
    ELSE IF c \in {1199, 1257} THEN c - 1
    ELSE c
Upper(s) == [i \in DOMAIN s |-> UpperChar(s[i])]
Title(s) == IF s = <<>> THEN <<>> ELSE <<UpperChar(Head(s))>> \o Lower(Tail(s))

\* "monday" .. "sunday"
EnglishFull ==
    << <<109, 111, 110, 100, 97, 121>>, <<116, 117, 101, 115, 100, 97, 121>>,
       <<119, 101, 100, 110, 101, 115, 100, 97, 121>>,
       <<116, 104, 117, 114, 115, 100, 97, 121>>, <<102, 114, 105, 100, 97, 121>>,
       <<115, 97, 116, 117, 114, 100, 97, 121>>, <<115, 117, 110, 100, 97, 121>> >>

\* "mon" .. "sun"
EnglishAbbr ==
    << <<109, 111, 110>>, <<116, 117, 101>>, <<119, 101, 100>>, <<116, 104, 117>>,
       <<102, 114, 105>>, <<115, 97, 116>>, <<115, 117, 110>> >>

\* the documented names of canonical day d, lower-cased
DayForms(d) == {Lower(DAY_ORDER[d]), EnglishFull[d], EnglishAbbr[d]}

S_Room == <<82, 111, 111, 109>>

DayLabels ==
    LET forms == UNION {DayForms(d) : d \in DOMAIN DAY_ORDER}
        cased == forms \cup {Upper(f) : f \in forms} \cup {Title(f) : f \in forms}
    IN  cased \cup {<<32>> \o f \o <<32, 10>> : f \in cased}
              \cup {<<>>, <<32, 9>>, S_Room, <<32>> \o S_Room}

InitDay ==
    /\ pc = "start"
    /\ label \in DayLabels
    /\ day = <<>>
    /\ table = Unused /\ tr = Unused /\ grid = Unused /\ span_map = Unused
    /\ parsed = Unused /\ cell = Unused /\ week_map = Unused
    /\ doc = Unused /\ class_names = Unused /\ pos = Unused /\ days = Unused
    /\ periods = Unused /\ odd_week = Unused /\ even_week = Unused

DayNormalize ==
    /\ pc = "start"
    /\ day' = NormalizeDayLabel(label)
    /\ pc' = "done"
    /\ UNCHANGED <<table, tr, grid, span_map, parsed, label, cell, week_map,
                   doc, class_names, pos, days, periods, odd_week, even_week>>

NextDay == DayNormalize

SpecDay == InitDay /\ [][NextDay]_vars

(***************************************************************************)
(* SpecExpand: _expand_table, one tr per step                              *)
(***************************************************************************)
MaxRows == 3
MaxCols == 3

\* absent, "2", "3", "0", "-1", "x"
SpanAttrs == {<<>>, <<<<50>>>>, <<<<51>>>>, <<<<48>>>>, <<<<45, 49>>>>, <<<<120>>>>}

Shapes(maxRows, maxCols) == UNION {[1 .. n -> 0 .. maxCols] : n \in 0 .. maxRows}

PlainTable(shape) ==
    [r \in DOMAIN shape |-> [i \in 1 .. shape[r] |-> Cell(<<r, i>>, <<>>, <<>>, <<>>)]]

\* the tables of up to maxRows rows of up to maxCols cells with at most one
\* cell that declares spans
ExpandTables(maxRows, maxCols) ==
    UNION {{PlainTable(sh)} \cup
           UNION {{[PlainTable(sh) EXCEPT ![r][i].rowspan = rs, ![r][i].colspan = cs] :
                       rs \in SpanAttrs, cs \in SpanAttrs} :
                  <<r, i>> \in {q \in (DOMAIN sh) \X (1 .. maxCols) : q[2] <= sh[q[1]]}} :
           sh \in Shapes(maxRows, maxCols)}

InitExpand ==
    /\ pc = "loop"
    /\ table \in ExpandTables(MaxRows, MaxCols)
    /\ tr = 1
    /\ grid = <<>>
    /\ span_map = <<>>
    /\ parsed = Unused /\ label = Unused /\ day = Unused
    /\ cell = Unused /\ week_map = Unused
    /\ doc = Unused /\ class_names = Unused /\ pos = Unused /\ days = Unused
    /\ periods = Unused /\ odd_week = Unused /\ even_week = Unused

idleExpand == <<table, parsed, label, day, cell, week_map,
                doc, class_names, pos, days, periods, odd_week, even_week>>

\* one iteration of "for tr in table.find_all("tr")"
ExpandTrStep ==
    /\ pc = "loop" /\ tr <= Len(table)
    /\ LET r == ExpandTr(table[tr], span_map)
       IN  /\ ~r.err
           /\ grid' = Append(grid, r.row)
           /\ span_map' = r.sm
    /\ tr' = tr + 1
    /\ UNCHANGED pc
    /\ UNCHANGED idleExpand

\* int() raises ValueError inside the iteration
ExpandRaise ==
    /\ pc = "loop" /\ tr <= Len(table)
    /\ ExpandTr(table[tr], span_map).err
    /\ pc' = "raised"
    /\ UNCHANGED <<tr, grid, span_map>>
    /\ UNCHANGED idleExpand

\* "return grid"
ExpandReturn ==
    /\ pc = "loop" /\ tr > Len(table)
    /\ pc' = "done"
    /\ UNCHANGED <<tr, grid, span_map>>
    /\ UNCHANGED idleExpand

NextExpand == ExpandTrStep \/ ExpandRaise \/ ExpandReturn

SpecExpand == InitExpand /\ [][NextExpand]_vars

(***************************************************************************)
(* SpecSplit: _split_cell_by_week on cells of up to MaxKids children       *)
(***************************************************************************)
MaxKids == 3

S_lesson == <<108, 101, 115, 115, 111, 110>>
S_WEEK1 == <<87, 69, 69, 75, 49>>

\* The children a cell may have at position i; the text of child i is the
\* capital letter number i ("A", "B", ...), a second line is the small one.
\*   text directly in the cell, <div>A</div>, <div>A<br>a</div>, <br>,
\*   <div class="lesson WEEK1">, <div class="bweek">, <div data-week="1">,
\*   <div data-week="even">
KidsAt(i) ==
    LET t == <<64 + i>>
        u == <<96 + i>>
    IN  { StrNode(t),
          TagNode(<<>>, <<>>, <<t>>),
          TagNode(<<>>, <<>>, <<t, u>>),
          TagNode(<<>>, <<>>, <<>>),
          TagNode(<<S_lesson, S_WEEK1>>, <<>>, <<t>>),
          TagNode(<<S_bweek>>, <<>>, <<t>>),
          TagNode(<<>>, <<<<49>>>>, <<t>>),
          TagNode(<<>>, <<S_even>>, <<t>>) }

RECURSIVE KidSeqs(_)
\* the sequences of n children
KidSeqs(n) ==
    IF n = 0 THEN {<<>>}
    ELSE {Append(ks, k) : ks \in KidSeqs(n - 1), k \in KidsAt(n)}

\* the cells of up to maxKids children
SplitCells(maxKids) ==
    {Cell(<<1, 1>>, <<>>, <<>>, ks) : ks \in UNION {KidSeqs(n) : n \in 0 .. maxKids}}

InitSplit ==
    /\ pc = "start"
    /\ cell \in SplitCells(MaxKids)
    /\ week_map = <<>>
    /\ table = Unused /\ tr = Unused /\ grid = Unused /\ span_map = Unused
    /\ parsed = Unused /\ label = Unused /\ day = Unused
    /\ doc = Unused /\ class_names = Unused /\ pos = Unused /\ days = Unused
    /\ periods = Unused /\ odd_week = Unused /\ even_week = Unused

SplitCell ==
    /\ pc = "start"
    /\ week_map' = SplitCellByWeek(cell)
    /\ pc' = "done"
    /\ UNCHANGED <<table, tr, grid, span_map, parsed, label, day, cell,
                   doc, class_names, pos, days, periods, odd_week, even_week>>

NextSplit == SplitCell

SpecSplit == InitSplit /\ [][NextSplit]_vars

(***************************************************************************)
(* SpecParse: _parse_table_structure on tables without spans, and on       *)
(* tables whose header declares a span that is no number                    *)
(***************************************************************************)
MaxDays == 2
MaxBody == 2

S_Tue == <<84, 117, 101>>
S_Monday == <<77, 111, 110, 100, 97, 121>>
S_P2 == <<80, 50>>

\* header labels: "Tue", "Monday", "1" and ""
HeaderTexts == {S_Tue, S_Monday, <<49>>, <<>>}

\* first-column labels of the body rows: "P2", "" and "Tue"
RowTexts == {S_P2, <<>>, S_Tue}

\* header rows: the corner cell and up to maxDays labels
HeaderRows(maxDays) ==
    UNION {{[i \in 1 .. (k + 1) |->
                TextCell(<<1, i>>, IF i = 1 THEN <<>> ELSE h[i - 1])] :
            h \in [1 .. k -> HeaderTexts]} : k \in 0 .. maxDays}

\* body row r under k header labels: its label and k data cells, or one
\* data cell less, or no cell at all
BodyRowsAt(r, k) ==
    {<<>>} \cup
    UNION {{[i \in 1 .. (n + 1) |->
                TextCell(<<r, i>>, IF i = 1 THEN t ELSE <<96 + i>>)] :
            t \in RowTexts} : n \in {m \in {k, k - 1} : m >= 0}}

RECURSIVE BodiesFrom(_, _, _)
\* the sequences of n body rows, the first of them being tr number r
BodiesFrom(r, n, k) ==
    IF n = 0 THEN {<<>>}
    ELSE {<<row>> \o rest : row \in BodyRowsAt(r, k), rest \in BodiesFrom(r + 1, n - 1, k)}

\* row h with colspan="x" on its last cell
BadSpan(h) ==
    [i \in DOMAIN h |-> IF i = Len(h) THEN [h[i] EXCEPT !.colspan = <<<<120>>>>] ELSE h[i]]

\* the table without rows, and a header row, as it is or with a span that is
\* no number, over up to maxBody body rows
ParseTables(maxDays, maxBody) ==
    {<<>>} \cup
    UNION {{<<hh>> \o b : hh \in {h, BadSpan(h)},
                          b \in UNION {BodiesFrom(2, n, Len(h) - 1) : n \in 0 .. maxBody}} :
           h \in HeaderRows(maxDays)}

InitParse ==
    /\ pc = "start"
    /\ table \in ParseTables(MaxDays, MaxBody)
    /\ parsed = <<>>
    /\ tr = Unused /\ grid = Unused /\ span_map = Unused
    /\ label = Unused /\ day = Unused /\ cell = Unused /\ week_map = Unused
    /\ doc = Unused /\ class_names = Unused /\ pos = Unused /\ days = Unused
    /\ periods = Unused /\ odd_week = Unused /\ even_week = Unused

\* the call returns its triple
ParseTable ==
    /\ pc = "start"
    /\ ~ParseTableStructure(table).err
    /\ parsed' = ParseTableStructure(table)
    /\ pc' = "done"
    /\ UNCHANGED <<table, tr, grid, span_map, label, day, cell, week_map,
                   doc, class_names, pos, days, periods, odd_week, even_week>>

\* the ValueError of int() inside _expand_table leaves the call: nothing
\* is returned
ParseRaise ==
    /\ pc = "start"
    /\ ParseTableStructure(table).err
    /\ pc' = "raised"
    /\ UNCHANGED <<table, tr, grid, span_map, parsed, label, day, cell, week_map,
                   doc, class_names, pos, days, periods, odd_week, even_week>>

NextParse == ParseTable \/ ParseRaise

SpecParse == InitParse /\ [][NextParse]_vars

(***************************************************************************)
(* Spec: load_classes (and load_teachers, the same loop) on documents of   *)
(* up to MaxElems top-level elements                                       *)
(***************************************************************************)
MaxElems == 4

S_10A == <<49, 48, 65>>
S_9B == <<57, 45, 66>>
S_Mon == <<77, 111, 110>>
S_Math == <<77, 97, 116, 104>>
S_MsX == <<77, 115, 46, 88>>
S_Room1 == <<82, 111, 111, 109, 49>>
S_Art == <<65, 114, 116>>
S_Bio == <<66, 105, 111>>
S_Chem == <<67, 104, 101, 109>>

\* <td><div>subject<br>Ms.X<br>Room1</div></td>
LessonCell(id, subject) ==
    Cell(id, <<>>, <<>>, <<TagNode(<<>>, <<>>, <<subject, S_MsX, S_Room1>>)>>)

\* header ["", "Mon", "Tue"], rows ["1", Math, Art] and ["2", Bio, Chem]
TableMonTue ==
    << <<TextCell(<<1, 1>>, <<>>), TextCell(<<1, 2>>, S_Mon), TextCell(<<1, 3>>, S_Tue)>>,
       <<TextCell(<<2, 1>>, <<49>>), LessonCell(<<2, 2>>, S_Math), LessonCell(<<2, 3>>, S_Art)>>,
       <<TextCell(<<3, 1>>, <<50>>), LessonCell(<<3, 2>>, S_Bio), LessonCell(<<3, 3>>, S_Chem)>> >>

\* header ["", "Monday", "Tue"], one row ["1", Math, Art]
TableOneRow ==
    << <<TextCell(<<1, 1>>, <<>>), TextCell(<<1, 2>>, S_Monday), TextCell(<<1, 3>>, S_Tue)>>,
       <<TextCell(<<2, 1>>, <<49>>), LessonCell(<<2, 2>>, S_Math), LessonCell(<<2, 3>>, S_Art)>> >>

\* header ["", "Monday", "Tue"], rows ["1", Math, Art] and ["2", Bio]
TableShortRow ==
    << <<TextCell(<<1, 1>>, <<>>), TextCell(<<1, 2>>, S_Monday), TextCell(<<1, 3>>, S_Tue)>>,
       <<TextCell(<<2, 1>>, <<49>>), LessonCell(<<2, 2>>, S_Math), LessonCell(<<2, 3>>, S_Art)>>,
       <<TextCell(<<3, 1>>, <<50>>), LessonCell(<<3, 2>>, S_Bio)>> >>

\* header ["", <th colspan="x">Monday</th>], row ["1", Math]
TableBadSpan ==
    << <<TextCell(<<1, 1>>, <<>>), Cell(<<1, 2>>, <<>>, <<<<120>>>>, <<StrNode(S_Monday)>>)>>,
       <<TextCell(<<2, 1>>, <<49>>), LessonCell(<<2, 2>>, S_Math)>> >>

Heading(text) == [kind |-> "h", text |-> text, rows |-> <<>>]
TableElem(rows) == [kind |-> "table", text |-> <<>>, rows |-> rows]

Elems ==
    {Heading(S_10A), Heading(S_9B)} \cup
    {TableElem(t) : t \in {TableMonTue, TableOneRow, TableShortRow, TableBadSpan}}

Docs(maxElems) == UNION {[1 .. n -> Elems] : n \in 0 .. maxElems}

Init ==
    /\ pc = "start"
    /\ doc \in Docs(MaxElems)
    /\ class_names = <<>> /\ pos = 0
    /\ days = <<>> /\ periods = <<>>
    /\ odd_week = <<>> /\ even_week = <<>>
    /\ table = Unused /\ tr = Unused /\ grid = Unused /\ span_map = Unused
    /\ parsed = Unused /\ label = Unused /\ day = Unused
    /\ cell = Unused /\ week_map = Unused

idleLoad == <<table, tr, grid, span_map, parsed, label, day, cell, week_map, doc>>

\* lines 338-345: the sections are collected and their names sorted
LoadCollect ==
    /\ pc = "start"
    /\ class_names' = SortedStrs(DOMAIN CollectSections(doc))
    /\ pos' = 1
    /\ pc' = "loop"
    /\ UNCHANGED <<days, periods, odd_week, even_week>>
    /\ UNCHANGED idleLoad

\* lines 348-353 with the result r of _build_week_matrices for class_name
SectionLoaded(class_name, r) ==
    /\ ~r.err
    /\ days' = IF r.days # <<>> /\ days = <<>> THEN r.days ELSE days
    /\ periods' = IF r.periods # <<>> /\ periods = <<>> THEN r.periods ELSE periods
    /\ odd_week' = Put(odd_week, class_name, r.odd)
    /\ even_week' = Put(even_week, class_name, r.even)

\* one iteration of "for class_name in class_names"
LoadSection ==
    /\ pc = "loop" /\ pos <= Len(class_names)
    /\ SectionLoaded(class_names[pos],
                     BuildWeekMatrices(CollectSections(doc)[class_names[pos]], days))
    /\ pos' = pos + 1
    /\ UNCHANGED <<pc, class_names>>
    /\ UNCHANGED idleLoad

\* the iteration in which _expand_table raises ValueError
LoadRaise ==
    /\ pc = "loop" /\ pos <= Len(class_names)
    /\ BuildWeekMatrices(CollectSections(doc)[class_names[pos]], days).err
    /\ pc' = "raised"
    /\ UNCHANGED <<class_names, pos, days, periods, odd_week, even_week>>
    /\ UNCHANGED idleLoad

\* "return {...}"
LoadReturn ==
    /\ pc = "loop" /\ pos > Len(class_names)
    /\ pc' = "done"
    /\ UNCHANGED <<class_names, pos, days, periods, odd_week, even_week>>
    /\ UNCHANGED idleLoad

Next == LoadCollect \/ LoadSection \/ LoadRaise \/ LoadReturn

Spec == Init /\ [][Next]_vars

(***************************************************************************)
(* Properties                                                              *)
(***************************************************************************)
\* the dimensions of a matrix are len(periods) x len(days)
HasLoadDims(m) ==
    /\ Len(m) = Len(periods)
    /\ \A r \in DOMAIN m : Len(m[r]) = Len(days)

\* C1 (Spec): after a load, for every section the odd and the even matrix
\* both have len(periods) rows of len(days) entries each, for the periods
\* and days the load returns.
C1_Dimensions ==
    pc = "done" =>
        \A name \in DOMAIN odd_week :
            HasLoadDims(odd_week[name]) /\ HasLoadDims(even_week[name])

\* the document of the end-to-end scenario: <h2>10A</h2> and one table
ScenarioDoc == <<Heading(S_10A), TableElem(TableMonTue)>>

Lesson(subject) == ParseEntryLines(<<subject, S_MsX, S_Room1>>)

\* C2 (Spec): loading the scenario document yields periods ["1", "2"], days
\* [Monday, Tuesday] in canonical form, at every position [p][d] the entry
\* of the source cell under header d in body row p (Math/Ms.X/Room1 at
\* [0][0]), and equal odd and even matrices.
C2_EndToEnd ==
    (pc = "done" /\ doc = ScenarioDoc) =>
        /\ periods = << <<49>>, <<50>> >>
        /\ days = <<DAY_ORDER[1], DAY_ORDER[2]>>
        /\ S_10A \in DOMAIN odd_week
        /\ odd_week[S_10A] = << <<Lesson(S_Math), Lesson(S_Art)>>,
                                <<Lesson(S_Bio), Lesson(S_Chem)>> >>
        /\ odd_week[S_10A] = even_week[S_10A]

\* the cells of a table
CellsOf(tbl) == {tbl[r][i] : <<r, i>> \in
                    {q \in (DOMAIN tbl) \X (1 .. MaxCols) : q[2] <= Len(tbl[q[1]])}}

\* a declared span that is a number >= 1, or absent
ValidSpan(attr) == IntAttr(attr).ok /\ IntAttr(attr).val >= 1

\* the grid rows that hold cell c, and the columns of row r that hold it
RowsHolding(g, c) == {r \in DOMAIN g : \E k \in DOMAIN g[r] : g[r][k].id = c.id}
ColsHolding(g, r, c) == {k \in DOMAIN g[r] : g[r][k].id = c.id}
Least(S) == CHOOSE x \in S : \A y \in S : x <= y

\* cell c, first placed at (r, k), fills the block its spans declare,
\* cut at the last row of the table
CoversBlock(g, c) ==
    LET r == Least(RowsHolding(g, c))
        k == Least(ColsHolding(g, r, c))
    IN  \A r2 \in r .. Min(r + IntAttr(c.rowspan).val - 1, Len(g)) :
            \A k2 \in k .. (k + IntAttr(c.colspan).val - 1) :
                k2 <= Len(g[r2]) /\ g[r2][k2].id = c.id

\* C3 (SpecExpand): in the expanded grid of a table whose declared spans
\* are all positive, every cell is referenced at every position of the
\* block of row-span x column-span positions that starts at its first
\* placement; with all spans 1 the grid is the table's rows unchanged.
C3_SpanCoverage ==
    (pc = "done" /\ \A c \in CellsOf(table) : ValidSpan(c.rowspan) /\ ValidSpan(c.colspan)) =>
        /\ \A c \in CellsOf(table) :
                RowsHolding(grid, c) # {} /\ CoversBlock(grid, c)
        /\ (\A c \in CellsOf(table) :
                IntAttr(c.rowspan).val = 1 /\ IntAttr(c.colspan).val = 1) => grid = table

\* C4 (SpecExpand): all rows of the returned grid have the same length.
C4_Rectangular ==
    pc = "done" => \A r1, r2 \in DOMAIN grid : Len(grid[r1]) = Len(grid[r2])

\* a declared span that is absent, non-numeric, zero or negative
DefaultedSpan(attr) == attr = <<>> \/ ~ParseInt(attr[1]).ok \/ ParseInt(attr[1]).val <= 0

\* C5 (SpecExpand): expansion raises no error, and a cell whose column-span
\* is absent, non-numeric, zero or negative occupies exactly one column of
\* its own row; one whose row-span is so is in no later row.
C5_SpanDefaulting ==
    /\ pc # "raised"
    /\ pc = "done" =>
        \A r \in DOMAIN table : \A i \in DOMAIN table[r] :
            /\ DefaultedSpan(table[r][i].colspan) =>
                   Cardinality(ColsHolding(grid, r, table[r][i])) = 1
            /\ DefaultedSpan(table[r][i].rowspan) =>
                   \A r2 \in (r + 1) .. Len(grid) : ColsHolding(grid, r2, table[r][i]) = {}

\* C6 (SpecDay): a label that is, in any letter case, the native name, the
\* English name or the English abbreviation of a canonical day maps to
\* that canonical day.
C6_AliasesCanonical ==
    pc = "done" =>
        \A d \in DOMAIN DAY_ORDER :
            Lower(label) \in DayForms(d) => day = <<DAY_ORDER[d]>>

\* the header labels after column 0, and "contains a decimal digit"
HeaderLabelsOf(tbl) ==
    [i \in 1 .. (Len(tbl[1]) - 1) |-> NormalizeText(GetText(tbl[1][i + 1]))]
HasDecimalDigit(s) == \E i \in DOMAIN s : s[i] \in 48 .. 57
AllHaveDigit(labels) == \A i \in DOMAIN labels : HasDecimalDigit(labels[i])

\* the tr numbers of the body rows that have cells
BodyTrs(tbl) ==
    SelectSeqIdx(Len(tbl), 1, [r \in 1 .. Len(tbl) |-> r >= 2 /\ tbl[r] # <<>>])

\* not transposed: one period per body row, and matrix row p holds cells of
\* body row p only
StraightShape(tbl, res) ==
    /\ Len(res.periods) = Len(BodyTrs(tbl))
    /\ Len(res.matrix) = Len(BodyTrs(tbl))
    /\ \A p \in DOMAIN res.matrix : \A k \in DOMAIN res.matrix[p] :
           res.matrix[p][k].id[1] = BodyTrs(tbl)[p]

\* transposed: the header labels are the period axis, and matrix row p
\* holds cells of source column p only, one per body row
TransposedShape(tbl, res) ==
    /\ res.periods = HeaderLabelsOf(tbl)
    /\ \A p \in DOMAIN res.matrix : \A k \in DOMAIN res.matrix[p] :
           res.matrix[p][k].id[2] = p + 1

\* C7 as stated (SpecParse): the table is transposed if and only if every
\* header label after column 0 contains a decimal digit.
C7_TransposedIffAllDigits ==
    (pc = "done" /\ table # <<>>) =>
        IF AllHaveDigit(HeaderLabelsOf(table))
        THEN TransposedShape(table, parsed)
        ELSE StraightShape(table, parsed)

\* C7 amended (SpecParse): the table is transposed if and only if there is
\* at least one header label after column 0 and every such label contains
\* a decimal digit.
C7_TransposedIffSomeAndAllDigits ==
    (pc = "done" /\ table # <<>>) =>
        IF HeaderLabelsOf(table) # <<>> /\ AllHaveDigit(HeaderLabelsOf(table))
        THEN TransposedShape(table, parsed)
        ELSE StraightShape(table, parsed)

\* a transposed table whose first matrix row holds cells of two body rows
C7_Witness ==
    /\ pc = "done" /\ table # <<>>
    /\ HeaderLabelsOf(table) # <<>> /\ AllHaveDigit(HeaderLabelsOf(table))
    /\ Len(parsed.matrix) >= 1
    /\ Len(parsed.matrix[1]) >= 2
    /\ parsed.matrix[1][1].id[1] # parsed.matrix[1][2].id[1]

\* the normalized lines of one child
LinesOf(child) ==
    LET ss == StrippedStrings(child.strs) IN [j \in DOMAIN ss |-> NormalizeText(ss[j])]

NoMarker(child) == child.class = <<>> /\ child.week = <<>>

\* C8 (SpecSplit): with exactly two child elements, both without a week
\* marker, the odd entry is built from the lines of the first child and the
\* even entry from the lines of the second; with exactly one child element
\* the odd entry equals the even entry.
C8_TwoChildrenOneChild ==
    pc = "done" =>
        LET t == SelectSeq(cell.kids, IsTag)
        IN  /\ (Len(t) = 2 /\ NoMarker(t[1]) /\ NoMarker(t[2])) =>
                   /\ week_map.odd = <<ParseEntryLines(LinesOf(t[1]))>>
                   /\ week_map.even = <<ParseEntryLines(LinesOf(t[2]))>>
            /\ Len(t) = 1 => (week_map.odd # <<>> /\ week_map.odd = week_map.even)

\* two unmarked children with different text, split into different entries
C8_Witness ==
    /\ pc = "done"
    /\ LET t == SelectSeq(cell.kids, IsTag)
       IN  /\ Len(t) = 2 /\ NoMarker(t[1]) /\ NoMarker(t[2])
           /\ LinesOf(t[1]) # <<>> /\ LinesOf(t[2]) # <<>>
           /\ week_map.odd # week_map.even

\* the label that header text l becomes on the day axis
Became(l) == IF NormalizeDayLabel(l) = <<>> THEN l ELSE NormalizeDayLabel(l)[1]

IsCanonical(d) == d \in Range(DAY_ORDER)

\* C9 (SpecParse): on a table that is not transposed, the day axis lists
\* the recognized days first, in week order, and every matrix cell stands
\* in the column of the day its header label became.
C9_ColumnsFollowDays ==
    (pc = "done" /\ table # <<>> /\ ~AllHaveDigit(HeaderLabelsOf(table))) =>
        /\ \A j \in 1 .. (Len(parsed.days) - 1) :
               IsCanonical(parsed.days[j + 1]) =>
                   /\ IsCanonical(parsed.days[j])
                   /\ DayIndex(parsed.days[j]) <= DayIndex(parsed.days[j + 1])
        /\ \A p \in DOMAIN parsed.matrix : \A j \in DOMAIN parsed.matrix[p] :
               /\ j <= Len(parsed.days)
               /\ Became(HeaderLabelsOf(table)[parsed.matrix[p][j].id[2] - 1])
                      = parsed.days[j]

\* the text lines an entry holds
EntryTexts(e) ==
    IF e = <<>> THEN {}
    ELSE {e[1].subject, e[1].second_line, e[1].third_line} \cup Range(e[1].extra_lines)

\* C10 (SpecSplit): every visible text line of the cell is in the odd or
\* in the even entry.
C10_NoTextLost ==
    pc = "done" =>
        \A s \in Range(StrippedStrings(AllStrings(cell.kids))) :
            NormalizeText(s) \in EntryTexts(week_map.odd) \cup EntryTexts(week_map.even)

====
